---- MODULE Spec2Model ----
(***************************************************************************)
(* A model of the causal-versioning and dense-ordering core of rust-crdt:  *)
(* the vector clock of src/src/vclock.rs and the dense identifier of       *)
(* src/src/identifier.rs.                                                  *)
(***************************************************************************)
EXTENDS Integers, Sequences, FiniteSets, TLC

VARIABLES
    clocks,     \* replica -> VClock.dots (a map actor -> counter, as a function)
    last,       \* the last VClock operation: its name, replica, arguments, and the clock before it
    delivered,  \* replica -> the set of dots delivered to it, directly or through a merged state
    ids,        \* the Identifiers that exist
    call        \* the last Identifier::between call: its arguments and its result

clockVars == <<clocks, last, delivered>>
idVars == <<ids, call>>
vars == <<clocks, last, delivered, ids, call>>

(***************************************************************************)
(* Bounds of the model.                                                    *)
(***************************************************************************)
NumActors == 2
MaxCounter == 2
MaxDelivered == 3
MaxPath == 2
MaxElem == 1
MaxIds == 4
MaxBisect == 5

Actors == 1..NumActors
Counters == 0..MaxCounter
Dots == [actor : Actors, counter : Counters]

\* The replicas of the operation-level specifications and of the law-level one.
Sites == {"r1", "r2"}
Triple == {"a", "b", "c"}

(***************************************************************************)
(* VClock (src/src/vclock.rs).  A clock is the BTreeMap `dots`: a function *)
(* whose domain is the set of stored actors.                               *)
(***************************************************************************)
new == <<>>

get(c, actor) == IF actor \in DOMAIN c THEN c[actor] ELSE 0

insert(c, actor, counter) ==
    [x \in (DOMAIN c) \cup {actor} |-> IF x = actor THEN counter ELSE c[x]]

remove(c, actor) == [x \in (DOMAIN c) \ {actor} |-> c[x]]

\* Mutants of apply_dot: last writer wins; and `<=` in place of `<`.
apply_dot_lww(c, dot) == insert(c, dot.actor, dot.counter)

apply_dot_le(c, dot) ==
    IF get(c, dot.actor) <= dot.counter
    THEN insert(c, dot.actor, dot.counter)
    ELSE c

apply_dot(c, dot) ==
    IF get(c, dot.actor) < dot.counter
    THEN insert(c, dot.actor, dot.counter)
    ELSE c

Least(S) == CHOOSE x \in S : \A y \in S : x <= y

\* BTreeMap iteration: the stored actors in ascending order.
RECURSIVE iter_from(_, _)
iter_from(c, todo) ==
    IF todo = {} THEN <<>>
    ELSE LET x == Least(todo)
         IN  <<[actor |-> x, counter |-> c[x]]>> \o iter_from(c, todo \ {x})

iter(c) == iter_from(c, DOMAIN c)

RECURSIVE merge_from(_, _)
merge_from(c, ds) ==
    IF ds = <<>> THEN c ELSE merge_from(apply_dot(c, Head(ds)), Tail(ds))

\* Mutant of merge: only the first dot of the other clock is applied.
merge_head(c, other) ==
    IF iter(other) = <<>> THEN c ELSE apply_dot(c, Head(iter(other)))

merge(c, other) == merge_from(c, iter(other))

\* Mutant of forget: `>` in place of `>=`, so an entry exactly matched is kept.
RECURSIVE forget_from_gt(_, _)
forget_from_gt(c, ds) ==
    IF ds = <<>> THEN c
    ELSE LET d == Head(ds)
         IN  forget_from_gt(IF d.counter > get(c, d.actor) THEN remove(c, d.actor) ELSE c,
                            Tail(ds))

RECURSIVE forget_from(_, _)
forget_from(c, ds) ==
    IF ds = <<>> THEN c
    ELSE LET d == Head(ds)
         IN  forget_from(IF d.counter >= get(c, d.actor) THEN remove(c, d.actor) ELSE c,
                         Tail(ds))

forget(c, other) == forget_from(c, iter(other))

clone_without(c, base_clock) == forget(c, base_clock)

min(x, y) == IF x <= y THEN x ELSE y

\* Mutant of glb: the entries whose minimum is 0 are kept.
glb_keep_zero(c, other) == [x \in DOMAIN c |-> min(c[x], get(other, x))]

glb(c, other) ==
    LET kept == {x \in DOMAIN c : min(c[x], get(other, x)) # 0}
    IN  [x \in kept |-> min(c[x], get(other, x))]

\* Mutant of intersection: the common actors, with the smaller counter.
intersection_min(left, right) ==
    LET both == {x \in DOMAIN left : get(right, x) > 0}
    IN  [x \in both |-> min(left[x], get(right, x))]

intersection(left, right) ==
    LET same == {x \in DOMAIN left : get(right, x) = left[x]}
    IN  [x \in same |-> left[x]]

\* Mutants of partial_cmp: `>` in place of `>=` in the Greater scan; and the
\* Greater scan run over self's entries instead of other's.
partial_cmp_gt(c, other) ==
    IF c = other THEN "Equal"
    ELSE IF \A w \in DOMAIN other : get(c, w) > other[w] THEN "Greater"
    ELSE IF \A w \in DOMAIN c : get(other, w) >= c[w] THEN "Less"
    ELSE "None"

partial_cmp_selfkeys(c, other) ==
    IF c = other THEN "Equal"
    ELSE IF \A w \in DOMAIN c : c[w] >= get(other, w) THEN "Greater"
    ELSE IF \A w \in DOMAIN c : get(other, w) >= c[w] THEN "Less"
    ELSE "None"

partial_cmp(c, other) ==
    IF c = other THEN "Equal"
    ELSE IF \A w \in DOMAIN other : get(c, w) >= other[w] THEN "Greater"
    ELSE IF \A w \in DOMAIN c : get(other, w) >= c[w] THEN "Less"
    ELSE "None"

concurrent(c, other) == partial_cmp(c, other) = "None"

\* VClock::dot: the snapshot of an actor's counter.
dot_for(c, actor) == [actor |-> actor, counter |-> get(c, actor)]

\* Dot::inc: the same actor with the counter one higher.
dot_inc(d) == [actor |-> d.actor, counter |-> d.counter + 1]

\* Mutant of inc: the snapshot is returned without being incremented.
inc_snapshot(c, actor) == dot_for(c, actor)

inc(c, actor) == dot_inc(dot_for(c, actor))

(***************************************************************************)
(* Identifier (src/src/identifier.rs).  A BigRational is a pair <<n, d>>   *)
(* in lowest terms with d > 0; an Option is <<>> (None) or <<v>> (Some).   *)
(***************************************************************************)
None == <<>>
Some(v) == <<v>>

Abs(n) == IF n < 0 THEN -n ELSE n

RECURSIVE GCD(_, _)
GCD(m, n) == IF n = 0 THEN m ELSE GCD(n, m % n)

\* Ratio::new reduces to lowest terms.
Reduce(n, d) == LET g == GCD(Abs(n), d) IN <<n \div g, d \div g>>

zero == <<0, 1>>
one == <<1, 1>>

RatAdd(x, y) == Reduce(x[1] * y[2] + y[1] * x[2], x[2] * y[2])
RatSub(x, y) == Reduce(x[1] * y[2] - y[1] * x[2], x[2] * y[2])
RatHalf(x) == Reduce(x[1], 2 * x[2])
RatLt(x, y) == x[1] * y[2] < y[1] * x[2]

\* Mutant of rational_between: the sum of the two bounds is not halved.
rational_between_sum(low, high) ==
    IF low = None /\ high = None THEN zero
    ELSE IF high = None THEN RatAdd(low[1], one)
    ELSE IF low = None THEN RatSub(high[1], one)
    ELSE RatAdd(low[1], high[1])

rational_between(low, high) ==
    IF low = None /\ high = None THEN zero
    ELSE IF high = None THEN RatAdd(low[1], one)
    ELSE IF low = None THEN RatSub(high[1], one)
    ELSE RatHalf(RatAdd(low[1], high[1]))

\* Mutant of EntryLt: the payload is not compared.
EntryLt_rational(x, y) == RatLt(x[1], y[1])

\* The derived ordering of a path entry (BigRational, T): the rational, then the payload.
EntryLt(x, y) == RatLt(x[1], y[1]) \/ (x[1] = y[1] /\ x[2] < y[2])

\* The derived ordering of Identifier, the lexicographic order of Vec:
\* the first entries that differ decide, and a strict prefix is smaller.
RECURSIVE IdLt(_, _)
IdLt(a, b) ==
    IF b = <<>> THEN FALSE
    ELSE IF a = <<>> THEN TRUE
    ELSE IF Head(a) = Head(b) THEN IdLt(Tail(a), Tail(b))
    ELSE EntryLt(Head(a), Head(b))

\* Mutant of walk: when a path ends without a fork, the common prefix is
\* returned with no entry pushed for elem.
RECURSIVE walk_prefix(_, _, _, _)
walk_prefix(path, low_path, high_path, elem) ==
    IF low_path = <<>> \/ high_path = <<>>
    THEN path
    ELSE LET l == Head(low_path)
             h == Head(high_path)
         IN  IF l[1] = h[1]
             THEN walk_prefix(Append(path, l), Tail(low_path), Tail(high_path), elem)
             ELSE Append(path, <<rational_between(Some(l[1]), Some(h[1])), elem>>)

\* The walk of the two paths in lock-step, up to the fork or the end of either.
RECURSIVE walk(_, _, _, _)
walk(path, low_path, high_path, elem) ==
    IF low_path = <<>> \/ high_path = <<>>
    THEN Append(path, <<rational_between(None, None), elem>>)
    ELSE LET l == Head(low_path)
             h == Head(high_path)
         IN  IF l[1] = h[1]
             THEN walk(Append(path, l), Tail(low_path), Tail(high_path), elem)
             ELSE Append(path, <<rational_between(Some(l[1]), Some(h[1])), elem>>)

\* Mutant of first: the rational of the bound's last entry is taken.
first_last(bound) ==
    IF bound = None \/ bound[1] = <<>>
    THEN None
    ELSE Some(bound[1][Len(bound[1])][1])

first(bound) ==
    IF bound = None \/ bound[1] = <<>> THEN None ELSE Some(bound[1][1][1])

between(low, high, elem) ==
    IF low # None /\ high # None
    THEN walk(<<>>, low[1], high[1], elem)
    ELSE <<<<rational_between(first(low), first(high)), elem>>>>

\* Identifier::value: the payload of the last entry; the unwrap of an empty
\* path panics, which is None here.
value(id) ==
    LET last_entry == IF id = <<>> THEN None ELSE Some(id[Len(id)])
    IN  IF last_entry = None THEN None ELSE Some(last_entry[1][2])

\* Identifier::into_value: the payload of the popped entry, or the panic.
into_value(id) ==
    LET popped == IF id = <<>> THEN None ELSE Some(id[Len(id)])
    IN  IF popped = None THEN None ELSE Some(popped[1][2])

\* The payloads, and the identifiers quickcheck's Arbitrary builds: paths of
\* up to MaxPath entries over a pool of rationals.
Elems == 0..MaxElem
RatPool == {Reduce(-1, 1), Reduce(1, 2)}

Paths(n) == UNION {[1..k -> RatPool \X Elems] : k \in 0..n}

(***************************************************************************)
(* Operations on the replicas' clocks.  Each operation replaces the clock  *)
(* of replica r; the specifications below add their bookkeeping.           *)
(***************************************************************************)
NoDot == [actor |-> 0, counter |-> 0]

Apply(r, dot) == clocks' = [clocks EXCEPT ![r] = apply_dot(clocks[r], dot)]

Merge(r, s) == clocks' = [clocks EXCEPT ![r] = merge(clocks[r], clocks[s])]

Forget(r, s) == clocks' = [clocks EXCEPT ![r] = forget(clocks[r], clocks[s])]

Glb(r, s) == clocks' = [clocks EXCEPT ![r] = glb(clocks[r], clocks[s])]

\* Bookkeeping: the operation just performed, its arguments, and the clock before it.
Log(op, r, dot, other) ==
    last' = [op |-> op, r |-> r, before |-> clocks[r], dot |-> dot, other |-> other,
             had |-> delivered[r]]

NoOp == [op |-> "new", r |-> "none", before |-> new, dot |-> NoDot, other |-> new,
         had |-> {}]

NoCall == [made |-> FALSE, low |-> None, high |-> None, elem |-> 0, mid |-> <<>>]

InitOn(replicas) ==
    /\ clocks = [r \in replicas |-> new]
    /\ last = NoOp
    /\ delivered = [r \in replicas |-> {}]
    /\ ids = {}
    /\ call = NoCall

(***************************************************************************)
(* Spec: two replicas under apply, merge, forget and glb, with the last    *)
(* operation recorded.                                                     *)
(***************************************************************************)
Init == InitOn(Sites)

Next ==
    \/ \E r \in DOMAIN clocks, dot \in Dots :
          Apply(r, dot) /\ Log("apply", r, dot, new) /\ UNCHANGED <<delivered, ids, call>>
    \/ \E r, s \in DOMAIN clocks :
          Merge(r, s) /\ Log("merge", r, NoDot, clocks[s]) /\ UNCHANGED <<delivered, ids, call>>
    \/ \E r, s \in DOMAIN clocks :
          Forget(r, s) /\ Log("forget", r, NoDot, clocks[s]) /\ UNCHANGED <<delivered, ids, call>>
    \/ \E r, s \in DOMAIN clocks :
          Glb(r, s) /\ Log("glb", r, NoDot, clocks[s]) /\ UNCHANGED <<delivered, ids, call>>

Spec == Init /\ [][Next]_vars

(***************************************************************************)
(* SpecLaws: three clocks a, b, c, each reachable through apply, merge,    *)
(* forget and glb; the algebraic laws are stated of the three.             *)
(***************************************************************************)
InitLaws == InitOn(Triple)

NextLaws ==
    \/ \E r \in DOMAIN clocks, dot \in Dots : Apply(r, dot) /\ UNCHANGED <<last, delivered, ids, call>>
    \/ \E r, s \in DOMAIN clocks : Merge(r, s) /\ UNCHANGED <<last, delivered, ids, call>>
    \/ \E r, s \in DOMAIN clocks : Forget(r, s) /\ UNCHANGED <<last, delivered, ids, call>>
    \/ \E r, s \in DOMAIN clocks : Glb(r, s) /\ UNCHANGED <<last, delivered, ids, call>>

SpecLaws == InitLaws /\ [][NextLaws]_vars

(***************************************************************************)
(* SpecCRDT: two replicas that start empty and only apply dots and merge   *)
(* each other's states, in any order and any number of times.  `delivered` *)
(* is the set of dots each replica has received, directly or inside a      *)
(* merged state; at most MaxDelivered distinct dots circulate.              *)
(***************************************************************************)
Deliver(r, ds) ==
    /\ delivered' = [delivered EXCEPT ![r] = @ \cup ds]
    /\ Cardinality(UNION {delivered'[s] : s \in DOMAIN delivered}) <= MaxDelivered

NextCRDT ==
    \/ \E r \in DOMAIN clocks, dot \in Dots :
          Apply(r, dot) /\ Log("apply", r, dot, new) /\ Deliver(r, {dot}) /\ UNCHANGED idVars
    \/ \E r, s \in DOMAIN clocks :
          Merge(r, s) /\ Log("merge", r, NoDot, clocks[s]) /\ Deliver(r, delivered[s])
                      /\ UNCHANGED idVars

SpecCRDT == Init /\ [][NextCRDT]_vars

(***************************************************************************)
(* SpecAPI: two replicas under every public operation of VClock.  The      *)
(* results of intersection and clone_without are stored as a replica's     *)
(* clock.  inc returns a dot (recorded in last.dot) without touching the   *)
(* clock; the dot is then applied to replicas in any order, last.other     *)
(* keeping the clock it was generated from.                                *)
(***************************************************************************)
Intersection(r, s) ==
    clocks' = [clocks EXCEPT ![r] = intersection(clocks[r], clocks[s])]

CloneWithout(r, s, t) ==
    clocks' = [clocks EXCEPT ![r] = clone_without(clocks[s], clocks[t])]

Inc(r, actor) ==
    /\ get(clocks[r], actor) < MaxCounter
    /\ Log("inc", r, inc(clocks[r], actor), clocks[r])
    /\ UNCHANGED clocks

ApplyOp(t) ==
    /\ last.op \in {"inc", "apply_op"}
    /\ Apply(t, last.dot)
    /\ Log("apply_op", t, last.dot, last.other)

NextAPI ==
    \/ \E r \in DOMAIN clocks, d \in Dots :
          Apply(r, d) /\ Log("apply", r, d, new) /\ UNCHANGED <<delivered, ids, call>>
    \/ \E r, s \in DOMAIN clocks :
          Merge(r, s) /\ Log("merge", r, NoDot, clocks[s]) /\ UNCHANGED <<delivered, ids, call>>
    \/ \E r, s \in DOMAIN clocks :
          Forget(r, s) /\ Log("forget", r, NoDot, clocks[s]) /\ UNCHANGED <<delivered, ids, call>>
    \/ \E r, s \in DOMAIN clocks :
          Glb(r, s) /\ Log("glb", r, NoDot, clocks[s]) /\ UNCHANGED <<delivered, ids, call>>
    \/ \E r, s \in DOMAIN clocks :
          Intersection(r, s) /\ Log("intersection", r, NoDot, clocks[s])
                             /\ UNCHANGED <<delivered, ids, call>>
    \/ \E r, s, t \in DOMAIN clocks :
          CloneWithout(r, s, t) /\ Log("clone_without", r, NoDot, clocks[t])
                                /\ UNCHANGED <<delivered, ids, call>>
    \/ \E r \in DOMAIN clocks, actor \in Actors :
          Inc(r, actor) /\ UNCHANGED <<delivered, ids, call>>
    \/ \E t \in DOMAIN clocks :
          ApplyOp(t) /\ UNCHANGED <<delivered, ids, call>>

SpecAPI == Init /\ [][NextAPI]_vars

(***************************************************************************)
(* Identifier::between as an operation: the call is recorded and its       *)
(* result joins the identifiers that exist.                                *)
(***************************************************************************)
Between(low, high, elem) ==
    LET mid == between(low, high, elem)
    IN  /\ call' = [made |-> TRUE, low |-> low, high |-> high, elem |-> elem, mid |-> mid]
        /\ ids' = ids \cup {mid}
        /\ UNCHANGED clockVars

InitIds(given) ==
    /\ clocks = <<>>
    /\ last = NoOp
    /\ delivered = <<>>
    /\ ids = given
    /\ call = NoCall

(***************************************************************************)
(* SpecDense: one call of between on identifiers built by Arbitrary, with  *)
(* either bound present or absent.                                         *)
(***************************************************************************)
InitDense == \E id_a, id_b \in Paths(MaxPath) : InitIds({id_a, id_b})

NextDense ==
    \/ \E elem \in Elems :
          ~call.made /\ Between(None, None, elem)
    \/ \E low \in ids, elem \in Elems :
          ~call.made /\ Between(Some(low), None, elem)
    \/ \E high \in ids, elem \in Elems :
          ~call.made /\ Between(None, Some(high), elem)
    \/ \E low, high \in ids, elem \in Elems :
          ~call.made /\ Between(Some(low), Some(high), elem)

SpecDense == InitDense /\ [][NextDense]_vars

(***************************************************************************)
(* SpecList: the calls an ordered list makes.  Every bound is an           *)
(* identifier an earlier call returned, the first call has no bound, and a *)
(* call with two bounds gives them in order (low < high).  Calls may       *)
(* repeat the same neighbours with equal or different payloads.  At most   *)
(* MaxIds identifiers are created.                                         *)
(***************************************************************************)
InitList == InitIds({})

Room == Cardinality(ids') <= MaxIds

NextList ==
    \/ \E elem \in Elems :
          Between(None, None, elem) /\ Room
    \/ \E low \in ids, elem \in Elems :
          Between(Some(low), None, elem) /\ Room
    \/ \E high \in ids, elem \in Elems :
          Between(None, Some(high), elem) /\ Room
    \/ \E low, high \in ids, elem \in Elems :
          IdLt(low, high) /\ Between(Some(low), Some(high), elem) /\ Room

SpecList == InitList /\ [][NextList]_vars

(***************************************************************************)
(* SpecBisect: sequential bisection.  x = between(None, None, e0), then    *)
(* y = between(Some(x), None, e1), then repeatedly between(Some(lo),       *)
(* Some(hi), e) where (lo, hi) are the two most recently created           *)
(* neighbours: the result of the previous call with either of its bounds.  *)
(* MaxBisect bisections are made.                                          *)
(***************************************************************************)
Neighbours ==
    IF call.high = None
    THEN {<<call.low[1], call.mid>>}
    ELSE {<<call.low[1], call.mid>>, <<call.mid, call.high[1]>>}

NextBisect ==
    \/ \E elem \in Elems :
          ~call.made /\ Between(None, None, elem)
    \/ \E elem \in Elems :
          /\ call.made /\ call.low = None /\ call.high = None
          /\ Between(Some(call.mid), None, elem)
    \/ \E elem \in Elems :
          /\ call.made /\ call.low # None
          /\ Cardinality(ids) < MaxBisect + 2
          /\ \E p \in Neighbours : Between(Some(p[1]), Some(p[2]), elem)

SpecBisect == InitList /\ [][NextBisect]_vars

(***************************************************************************)
(* Properties of the vector clock.                                         *)
(***************************************************************************)
ClockA == clocks["a"]
ClockB == clocks["b"]
ClockC == clocks["c"]

After == clocks[last.r]

\* C3: merge is the join of a join-semilattice: for the clocks a, b, c it is
\* associative, commutative and idempotent.  (SpecLaws)
MergeIsJoin ==
    /\ merge(ClockA, merge(ClockB, ClockC)) = merge(merge(ClockA, ClockB), ClockC)
    /\ merge(ClockA, ClockB) = merge(ClockB, ClockA)
    /\ merge(ClockA, ClockA) = ClockA

\* Three pairwise concurrent clocks, so that every merge takes entries of both sides.
MergeIsJoinWitness ==
    /\ concurrent(ClockA, ClockB)
    /\ concurrent(ClockB, ClockC)
    /\ concurrent(ClockA, ClockC)
    /\ merge(ClockA, ClockB) \notin {ClockA, ClockB}

\* C4: replicas that start empty and were delivered the same set of dots, by
\* apply or inside merged states, hold equal clocks, whatever the order and
\* the number of deliveries; and applying a dot that was already delivered
\* leaves the clock unchanged.  (SpecCRDT)
Convergence ==
    /\ \A r, s \in DOMAIN clocks : delivered[r] = delivered[s] => clocks[r] = clocks[s]
    /\ (last.op = "apply" /\ last.dot \in last.had) => After = last.before

\* Both replicas were delivered the same three dots of two actors, and the
\* last step applied again a dot with a positive counter delivered before.
ConvergenceWitness ==
    /\ last.op = "apply"
    /\ last.dot \in last.had
    /\ last.dot.counter > 0
    /\ \A r, s \in DOMAIN clocks : delivered[r] = delivered[s]
    /\ Cardinality(delivered[last.r]) >= 3
    /\ Cardinality(DOMAIN After) >= 2

\* C5: apply(dot) sets the counter of dot.actor to dot.counter only if it is
\* strictly greater than the stored one (0 when absent), otherwise the clock
\* is unchanged; the other actors' entries are unchanged either way; and
\* applying the same dot again changes nothing.  (Spec)
ApplyEffect ==
    last.op = "apply" =>
        LET d == last.dot
        IN  /\ d.counter > get(last.before, d.actor) =>
                  (d.actor \in DOMAIN After /\ After[d.actor] = d.counter)
            /\ d.counter <= get(last.before, d.actor) => After = last.before
            /\ \A x \in Actors \ {d.actor} :
                  /\ x \in DOMAIN After <=> x \in DOMAIN last.before
                  /\ get(After, x) = get(last.before, x)
            /\ apply_dot(After, d) = After

\* A dot that raises a counter already stored, beside another actor's entry.
ApplyEffectWitness ==
    /\ last.op = "apply"
    /\ get(last.before, last.dot.actor) >= 1
    /\ last.dot.counter > get(last.before, last.dot.actor)
    /\ DOMAIN last.before # {last.dot.actor}

\* C6: no apply and no merge decreases get(actor) for any actor, and right
\* after apply(Dot(A, n)) get(A) >= n.  (Spec)
Monotonic ==
    last.op \in {"apply", "merge"} =>
        /\ \A x \in Actors : get(After, x) >= get(last.before, x)
        /\ last.op = "apply" => get(After, last.dot.actor) >= last.dot.counter

\* A stale dot (positive, below the stored counter) has just been applied.
MonotonicWitness ==
    /\ last.op = "apply"
    /\ last.dot.counter > 0
    /\ last.dot.counter < get(last.before, last.dot.actor)

Pairs == {<<ClockA, ClockB>>, <<ClockB, ClockA>>, <<ClockA, ClockC>>,
          <<ClockC, ClockA>>, <<ClockB, ClockC>>, <<ClockC, ClockB>>,
          <<ClockA, ClockA>>}

\* C7: for clocks reachable through apply, merge, forget and glb,
\* partial_cmp(a, b) is Greater exactly when partial_cmp(b, a) is Less, and
\* it is Equal exactly when the two maps are identical.  (SpecLaws)
CmpAntisymmetric ==
    \A p \in Pairs :
        /\ partial_cmp(p[1], p[2]) = "Greater" <=> partial_cmp(p[2], p[1]) = "Less"
        /\ partial_cmp(p[1], p[2]) = "Equal" <=>
              (DOMAIN p[1] = DOMAIN p[2] /\ \A x \in DOMAIN p[1] : p[1][x] = p[2][x])

\* a is strictly Greater than b, b stores an actor, and a stores one b does not.
CmpAntisymmetricWitness ==
    /\ partial_cmp(ClockA, ClockB) = "Greater"
    /\ ClockB # new
    /\ DOMAIN ClockA # DOMAIN ClockB

\* C8: partial_cmp is transitive where it is defined: if partial_cmp(a, b)
\* and partial_cmp(b, c) are the same ordering x, so is partial_cmp(a, c).  (SpecLaws)
CmpTransitive ==
    \A x \in {"Less", "Equal", "Greater"} :
        (partial_cmp(ClockA, ClockB) = x /\ partial_cmp(ClockB, ClockC) = x)
            => partial_cmp(ClockA, ClockC) = x

\* A strict chain a > b > c of non-empty clocks.
CmpTransitiveWitness ==
    /\ partial_cmp(ClockA, ClockB) = "Greater"
    /\ partial_cmp(ClockB, ClockC) = "Greater"
    /\ ClockC # new

Dominates(c, other) == \A x \in Actors : get(c, x) >= get(other, x)

\* C9: concurrent(a, b) is true exactly when some actor is ahead in a and
\* some actor is ahead in b; it is false when a = b or when one clock is
\* pointwise <= the other.  (SpecLaws)
ConcurrentIffDiverged ==
    \A p \in Pairs :
        /\ concurrent(p[1], p[2]) <=>
              /\ \E x \in Actors : get(p[1], x) > get(p[2], x)
              /\ \E y \in Actors : get(p[2], y) > get(p[1], y)
        /\ (p[1] = p[2] \/ Dominates(p[1], p[2]) \/ Dominates(p[2], p[1]))
              => ~concurrent(p[1], p[2])

\* Two concurrent clocks that store the same actors.
ConcurrentIffDivergedWitness ==
    /\ concurrent(ClockA, ClockB)
    /\ DOMAIN ClockA = DOMAIN ClockB
    /\ partial_cmp(ClockA, ClockC) = "Less"

\* C10: after a.glb(b), get(a, x) is the minimum of the two counters for
\* every actor x; no actor absent from a before is stored; an actor whose
\* minimum is 0 is removed; and a.glb(a.clone()) leaves a unchanged.  (Spec)
GlbIsMeet ==
    last.op = "glb" =>
        /\ \A x \in Actors : get(After, x) = min(get(last.before, x), get(last.other, x))
        /\ DOMAIN After \subseteq DOMAIN last.before
        /\ \A x \in DOMAIN last.before :
              min(last.before[x], get(last.other, x)) = 0 => x \notin DOMAIN After
        /\ last.other = last.before => After = last.before
        /\ glb(After, After) = After

\* glb has just lowered one entry and removed another.
GlbIsMeetWitness ==
    /\ last.op = "glb"
    /\ \E x \in DOMAIN After : After[x] < last.before[x]
    /\ \E x \in DOMAIN last.before : x \notin DOMAIN After

NoZeroStored ==
    \A r \in DOMAIN clocks : \A x \in DOMAIN clocks[r] : clocks[r][x] > 0

\* A dot with counter 0 has just been applied for an actor the clock did
\* not store, on a replica that stores another actor.
NoZeroStoredWitness ==
    /\ last.op = "apply"
    /\ last.dot.counter = 0
    /\ last.dot.actor \notin DOMAIN last.before
    /\ last.before # new

\* C15: inc(actor) returns the dot of actor with counter get(actor) + 1 and
\* leaves the clock unchanged; once the returned dot is applied,
\* get(actor) equals its counter on the replica that generated it and on
\* every replica whose counter for the actor was lower.  (SpecAPI)
IncThenApply ==
    /\ \A r \in DOMAIN clocks, a \in Actors :
          inc(clocks[r], a) = [actor |-> a, counter |-> get(clocks[r], a) + 1]
    /\ last.op = "inc" =>
          /\ After = last.before
          /\ last.dot.counter = get(After, last.dot.actor) + 1
    /\ last.op = "apply_op" =>
          ((last.before = last.other
               \/ get(last.before, last.dot.actor) < last.dot.counter)
            => get(After, last.dot.actor) = last.dot.counter)

\* A dot generated by inc on one clock has just raised a stored, lower
\* counter of a replica holding a different clock.
IncThenApplyWitness ==
    /\ last.op = "apply_op"
    /\ last.before # last.other
    /\ get(last.before, last.dot.actor) >= 1
    /\ get(last.before, last.dot.actor) < last.dot.counter
    /\ After[last.dot.actor] = last.dot.counter

\* C16: intersection(left, right) stores actor x with counter c exactly
\* when left and right both store x with counter c, and nothing else; the
\* clock passed as right is left as it was; and intersection(left, right)
\* = intersection(right, left).  (SpecAPI)
IntersectionExact ==
    last.op = "intersection" =>
        /\ \A x \in Actors :
              /\ x \in DOMAIN After <=>
                    (x \in DOMAIN last.before /\ x \in DOMAIN last.other
                        /\ last.before[x] = last.other[x])
              /\ x \in DOMAIN After => After[x] = last.before[x]
        /\ \/ last.other = last.before
           \/ \A s \in DOMAIN clocks \ {last.r} : clocks[s] = last.other
        /\ intersection(last.before, last.other) = intersection(last.other, last.before)

\* intersection has just kept a common entry and dropped one stored by
\* both clocks with different counters.
IntersectionExactWitness ==
    /\ last.op = "intersection"
    /\ After # new
    /\ \E x \in DOMAIN last.before \ DOMAIN After : x \in DOMAIN last.other

\* C20: the partial order agrees with merge as least upper bound: for
\* clocks reachable through apply, merge, forget and glb, partial_cmp(a, b)
\* is Less or Equal exactly when merging b into a gives b, and the merged
\* clock compares Greater or Equal to both a and b.  (SpecLaws)
OrderAgreesWithMerge ==
    \A p \in Pairs :
        LET merged == merge(p[1], p[2])
        IN  /\ partial_cmp(p[1], p[2]) \in {"Less", "Equal"} <=> merged = p[2]
            /\ partial_cmp(merged, p[1]) \in {"Greater", "Equal"}
            /\ partial_cmp(merged, p[2]) \in {"Greater", "Equal"}

\* a is strictly below b and stores an actor, so the merge gives b; a and c
\* are concurrent, so their merge is strictly above both.
OrderAgreesWithMergeWitness ==
    /\ partial_cmp(ClockA, ClockB) = "Less"
    /\ ClockA # new
    /\ merge(ClockA, ClockB) = ClockB
    /\ concurrent(ClockA, ClockC)
    /\ partial_cmp(merge(ClockA, ClockC), ClockA) = "Greater"
    /\ partial_cmp(merge(ClockA, ClockC), ClockC) = "Greater"

(***************************************************************************)
(* Properties of the dense identifier.                                     *)
(***************************************************************************)
BothBounds == call.made /\ call.low # None /\ call.high # None

\* C1: for identifiers a < b with non-empty paths, between(Some(a), Some(b),
\* elem) returns mid with a < mid and mid < b, for every payload.  (SpecDense)
Dense ==
    (BothBounds /\ call.low[1] # <<>> /\ call.high[1] # <<>>
        /\ IdLt(call.low[1], call.high[1]))
    => (IdLt(call.low[1], call.mid) /\ IdLt(call.mid, call.high[1]))

\* C2: in a sequence of between calls whose bounds were all returned by
\* earlier calls of the sequence, every call with two bounds a < b returns
\* mid with a < mid < b.  (SpecList)
DenseInUse ==
    (BothBounds /\ IdLt(call.low[1], call.high[1]))
    => (IdLt(call.low[1], call.mid) /\ IdLt(call.mid, call.high[1]))

MinLen(a, b) == IF Len(a) <= Len(b) THEN Len(a) ELSE Len(b)

\* The order the rationals alone would give: the first position whose
\* rationals differ decides, and a path whose rationals are a strict prefix
\* of the other's is the smaller.
RationalsLt(a, b) ==
    \/ \E i \in 1..MinLen(a, b) :
          /\ \A j \in 1..(i - 1) : a[j][1] = b[j][1]
          /\ RatLt(a[i][1], b[i][1])
    \/ /\ Len(a) < Len(b)
       /\ \A j \in 1..Len(a) : a[j][1] = b[j][1]

\* The lexicographic order of the entries: at the first position whose
\* entries differ the rationals decide if they differ, the payloads
\* otherwise; a strict prefix is the smaller.
EntriesLt(a, b) ==
    \/ \E i \in 1..MinLen(a, b) :
          /\ \A j \in 1..(i - 1) : a[j] = b[j]
          /\ \/ RatLt(a[i][1], b[i][1])
             \/ (a[i][1] = b[i][1] /\ a[i][2] < b[i][2])
    \/ /\ Len(a) < Len(b)
       /\ \A j \in 1..Len(a) : a[j] = b[j]

\* C13, as stated: the order of two Identifiers is decided by their
\* rationals alone, payloads at positions with equal rationals playing no
\* part; stated of the bounds and the result of a between call.  (SpecDense)
OrderByRationals ==
    call.made => \A a, b \in ids : IdLt(a, b) <=> RationalsLt(a, b)

\* C13, amended: the order of two Identifiers is the lexicographic order of
\* their (rational, payload) entries: at the first position whose entries
\* differ the rationals decide if they differ and the payloads otherwise;
\* a strict prefix is the smaller; stated of the bounds and the result of a
\* between call.  (SpecDense)
OrderByEntries ==
    call.made => \A a, b \in ids : IdLt(a, b) <=> EntriesLt(a, b)

\* The result of a between call and its upper bound: their first rationals
\* agree and their first payloads order them against their second rationals.
OrderByEntriesWitness ==
    call.made /\ call.high # None /\ \E a \in {call.mid}, b \in {call.high[1]} :
        /\ Len(a) >= 2 /\ Len(b) >= 2
        /\ a[1][1] = b[1][1] /\ a[1][2] < b[1][2]
        /\ RatLt(b[2][1], a[2][1])
        /\ IdLt(a, b)

\* In a bisection run: the first result has rational 0, the second has
\* rational 1, and every later result lies strictly between its bounds.
BisectionInOrder ==
    call.made =>
        /\ (call.low = None /\ call.high = None) => call.mid[1][1] = zero
        /\ (call.low # None /\ call.high = None) => call.mid[1][1] = one
        /\ BothBounds =>
              (IdLt(call.low[1], call.mid) /\ IdLt(call.mid, call.high[1]))

\* C14: in sequential bisection from x (rational 0) and y (rational 1),
\* every result lies strictly between the two neighbours it was made from
\* and equals no identifier created earlier.  (SpecBisect)
Bisection == []BisectionInOrder /\ [][call'.mid \notin ids]_vars

\* The last of MaxBisect bisections, each made in the interval the one
\* before had shrunk: the result's rational has a denominator above 16.
BisectionWitness ==
    /\ BothBounds
    /\ Cardinality(ids) = MaxBisect + 2
    /\ call.mid[1][1][2] > 16
    /\ IdLt(call.low[1], call.mid)

\* C17: every identifier between returns has a non-empty path whose last
\* entry carries elem, so value and into_value return elem and never reach
\* the unwrap of an empty path.  (SpecDense)
ValueIsElem ==
    call.made =>
        /\ call.mid # <<>>
        /\ call.mid[Len(call.mid)][2] = call.elem
        /\ value(call.mid) = Some(call.elem)
        /\ into_value(call.mid) = Some(call.elem)

\* A result that shares a first entry with its bounds, whose payload there
\* is another one than elem.
ValueIsElemWitness ==
    /\ BothBounds
    /\ Len(call.mid) >= 2
    /\ call.mid[1][2] # call.elem
    /\ value(call.mid) = Some(call.elem)

\* The walk of the recorded call compared every position both paths have,
\* at least one, and found the rationals equal.
RanOut ==
    /\ BothBounds
    /\ MinLen(call.low[1], call.high[1]) >= 1
    /\ \A i \in 1..MinLen(call.low[1], call.high[1]) :
          call.low[1][i][1] = call.high[1][i][1]

\* C18: when the walk of between(Some(low), Some(high), elem) reaches the
\* end of one path with all compared rationals equal while the other path
\* continues, the final rational of the result is L + 1 when high ran out
\* and low continues with rational L, and H - 1 when low ran out and high
\* continues with rational H.  (SpecDense)
RunOutOffset ==
    RanOut =>
        LET low_path == call.low[1]
            high_path == call.high[1]
            final == call.mid[Len(call.mid)][1]
        IN  /\ Len(high_path) < Len(low_path)
                  => final = RatAdd(low_path[Len(high_path) + 1][1], one)
            /\ Len(low_path) < Len(high_path)
                  => final = RatSub(high_path[Len(low_path) + 1][1], one)

\* C19: with at most one bound, between returns a single entry carrying
\* elem: rational 0 with no bound, the rational of low's first entry plus 1
\* with low alone, the rational of high's first entry minus 1 with high
\* alone, however long the bound's path; so the result is above low,
\* respectively below high.  A bound has a first entry.  (SpecDense)
OneBound ==
    (call.made /\ ~BothBounds) =>
        /\ Len(call.mid) = 1
        /\ call.mid[1][2] = call.elem
        /\ (call.low = None /\ call.high = None) => call.mid[1][1] = zero
        /\ (call.low # None /\ call.low[1] # <<>>) =>
              /\ call.mid[1][1] = RatAdd(call.low[1][1][1], one)
              /\ IdLt(call.low[1], call.mid)
        /\ (call.high # None /\ call.high[1] # <<>>) =>
              /\ call.mid[1][1] = RatSub(call.high[1][1][1], one)
              /\ IdLt(call.mid, call.high[1])

\* A call with low alone, whose path has two entries with different
\* rationals: the result is one above the first of them.
OneBoundWitness ==
    /\ call.made /\ call.low # None /\ call.high = None
    /\ Len(call.low[1]) >= 2
    /\ call.low[1][1][1] # call.low[1][Len(call.low[1])][1]
    /\ call.mid[1][1] = RatAdd(call.low[1][1][1], one)
    /\ IdLt(call.low[1], call.mid)

====
